---------------------------- MODULE Spec2Model ----------------------------
(***************************************************************************)
(* Library catalogue: the createBook mutation (validation, uniqueness      *)
(* pre-check, store write), the searchBooks resolver and the CSV importer. *)
(*                                                                         *)
(* Text is modelled as a sequence of one-character strings, so that the    *)
(* regular expressions, the date parser and the substring search work on   *)
(* characters as the code does.                                            *)
(***************************************************************************)
EXTENDS Integers, Sequences, FiniteSets, TLC

(***************************************************************************)
(* Bounds of the model.                                                    *)
(***************************************************************************)
\* Concurrent request workers serving createBook.
NumWorkers == 2
\* Longest isbn_number string given to the validation.
MaxIsbnLen == 14
\* Most data rows in an imported CSV file.
MaxRows == 3

(***************************************************************************)
(* Characters.                                                             *)
(***************************************************************************)
AsciiDigits == <<"0", "1", "2", "3", "4", "5", "6", "7", "8", "9">>
UpperLetters ==
    <<"A", "B", "C", "D", "E", "F", "G", "H", "I", "J", "K", "L", "M",
      "N", "O", "P", "Q", "R", "S", "T", "U", "V", "W", "X", "Y", "Z">>
LowerLetters ==
    <<"a", "b", "c", "d", "e", "f", "g", "h", "i", "j", "k", "l", "m",
      "n", "o", "p", "q", "r", "s", "t", "u", "v", "w", "x", "y", "z">>
\* ARABIC-INDIC DIGIT THREE, a decimal digit outside ASCII (one character).
ArabicThree == "U+0663"
\* NO-BREAK SPACE, a whitespace character outside ASCII (one character).
NoBreakSpace == "U+00A0"

Range(f) == {f[i] : i \in DOMAIN f}

IsAsciiDigit(c) == c \in Range(AsciiDigits)
IsAsciiLetter(c) == c \in Range(UpperLetters) \cup Range(LowerLetters)
DigitVal(c) == (CHOOSE i \in 1..10 : AsciiDigits[i] = c) - 1

\* \d of a str pattern: any Unicode decimal digit.
ReDigit(c) == IsAsciiDigit(c) \/ c = ArabicThree
\* \s of a str pattern: any Unicode whitespace.
ReSpace(c) == c \in {" ", "\t", "\n", "\r", NoBreakSpace}

\* The case folding of a case-insensitive match, on ASCII letters.
Lower(c) ==
    IF c \in Range(UpperLetters)
    THEN LowerLetters[CHOOSE i \in 1..26 : UpperLetters[i] = c]
    ELSE c
LowerStr(s) == [i \in 1..Len(s) |-> Lower(s[i])]

(***************************************************************************)
(* ISBN rule: re.match(r'^\d{10}(?:\d{3})?$', isbn_number).                *)
(* $ matches at the end of the string and also just before a newline that  *)
(* ends the string.                                                        *)
(***************************************************************************)
AllReDigits(s, n) == Len(s) >= n /\ \A i \in 1..n : ReDigit(s[i])
AtDollar(s, n) == Len(s) = n \/ (Len(s) = n + 1 /\ s[n + 1] = "\n")
IsbnMatches(isbn) ==
    \/ AllReDigits(isbn, 13) /\ AtDollar(isbn, 13)
    \/ AllReDigits(isbn, 10) /\ AtDollar(isbn, 10)

(***************************************************************************)
(* Date rule: datetime.date.fromisoformat(published_date).                 *)
(* The interpreter decides which forms parse: Python 3.7 to 3.10 accept    *)
(* YYYY-MM-DD only; Python 3.11 and later also accept YYYYMMDD and the ISO *)
(* week dates YYYY-Www, YYYYWww, YYYY-Www-D, YYYYWwwD.                     *)
(***************************************************************************)
IsoFormsOfBuild == {"strict", "extended"}

NoDate == <<>>
MkDate(y, m, d) == <<[year |-> y, month |-> m, day |-> d]>>

IsLeap(y) == y % 4 = 0 /\ (y % 100 # 0 \/ y % 400 = 0)
DaysInMonth(y, m) ==
    IF m = 2 THEN (IF IsLeap(y) THEN 29 ELSE 28)
    ELSE IF m \in {4, 6, 9, 11} THEN 30 ELSE 31
ValidYmd(y, m, d) ==
    /\ y >= 1 /\ y <= 9999
    /\ m >= 1 /\ m <= 12
    /\ d >= 1 /\ d <= DaysInMonth(y, m)

RECURSIVE DaysBeforeMonth(_, _)
DaysBeforeMonth(y, m) ==
    IF m = 1 THEN 0 ELSE DaysBeforeMonth(y, m - 1) + DaysInMonth(y, m - 1)
DaysBeforeYear(y) ==
    (y - 1) * 365 + (y - 1) \div 4 - (y - 1) \div 100 + (y - 1) \div 400
Ymd2Ord(y, m, d) == DaysBeforeYear(y) + DaysBeforeMonth(y, m) + d

\* Ordinal of the Monday starting ISO week 1 of the year.
IsoWeek1Monday(y) ==
    LET firstday == Ymd2Ord(y, 1, 1)
        firstweekday == (firstday + 6) % 7
        monday == firstday - firstweekday
    IN  IF firstweekday > 3 THEN monday + 7 ELSE monday

\* The calendar date of an ordinal near year y; none past year 9999.
Ord2Ymd(y, ord) ==
    LET cands == {t \in ((y - 1)..(y + 1)) \X (1..12) \X (1..31) :
                    ValidYmd(t[1], t[2], t[3])
                    /\ Ymd2Ord(t[1], t[2], t[3]) = ord}
    IN  IF cands = {} THEN NoDate
        ELSE LET t == CHOOSE t \in cands : TRUE IN MkDate(t[1], t[2], t[3])

IsoWeekToGregorian(y, week, day) ==
    LET firstweekday == Ymd2Ord(y, 1, 1) % 7
        longyear == firstweekday = 4 \/ (firstweekday = 3 /\ IsLeap(y))
    IN  IF y < 1 \/ y > 9999 THEN NoDate
        ELSE IF ~(week >= 1 /\ week <= 52) /\ ~(week = 53 /\ longyear)
        THEN NoDate
        ELSE IF day < 1 \/ day > 7 THEN NoDate
        ELSE Ord2Ymd(y, IsoWeek1Monday(y) + (week - 1) * 7 + (day - 1))

AllAsciiDigits(s, i, j) ==
    /\ Len(s) >= j
    /\ \A k \in i..j : IsAsciiDigit(s[k])
RECURSIVE Num(_, _, _)
Num(s, i, j) == IF j < i THEN 0 ELSE Num(s, i, j - 1) * 10 + DigitVal(s[j])

\* YYYY-MM-DD, as every fromisoformat parses it.
ParseStrict(s) ==
    IF /\ Len(s) = 10
       /\ AllAsciiDigits(s, 1, 4) /\ s[5] = "-"
       /\ AllAsciiDigits(s, 6, 7) /\ s[8] = "-"
       /\ AllAsciiDigits(s, 9, 10)
       /\ ValidYmd(Num(s, 1, 4), Num(s, 6, 7), Num(s, 9, 10))
    THEN MkDate(Num(s, 1, 4), Num(s, 6, 7), Num(s, 9, 10))
    ELSE NoDate

\* The forms Python 3.11 added; a string of 7, 8 or 10 characters.
ParseExtended(s) ==
    IF Len(s) \notin {7, 8, 10} \/ ~AllAsciiDigits(s, 1, 4) THEN NoDate
    ELSE
    LET sep == IF s[5] = "-" THEN 1 ELSE 0
        pos == 5 + sep
    IN  IF s[pos] = "W"
        THEN IF ~AllAsciiDigits(s, pos + 1, pos + 2) THEN NoDate
             ELSE IF Len(s) = pos + 2
             THEN IsoWeekToGregorian(Num(s, 1, 4), Num(s, pos + 1, pos + 2), 1)
             ELSE IF /\ (s[pos + 3] = "-") = (sep = 1)
                     /\ Len(s) = pos + 3 + sep
                     /\ IsAsciiDigit(s[pos + 3 + sep])
             THEN IsoWeekToGregorian(Num(s, 1, 4), Num(s, pos + 1, pos + 2),
                                     DigitVal(s[pos + 3 + sep]))
             ELSE NoDate
        ELSE IF /\ AllAsciiDigits(s, pos, pos + 1)
                /\ Len(s) = pos + 3 + sep
                /\ (s[pos + 2] = "-") = (sep = 1)
                /\ AllAsciiDigits(s, pos + 2 + sep, pos + 3 + sep)
                /\ ValidYmd(Num(s, 1, 4), Num(s, pos, pos + 1),
                            Num(s, pos + 2 + sep, pos + 3 + sep))
        THEN MkDate(Num(s, 1, 4), Num(s, pos, pos + 1),
                    Num(s, pos + 2 + sep, pos + 3 + sep))
        ELSE NoDate

\* fromisoformat: the parsed date, or none where the code's except runs.
FromIsoFormat(forms, s) ==
    IF forms = "strict" THEN ParseStrict(s) ELSE ParseExtended(s)


(***************************************************************************)
(* State.                                                                  *)
(***************************************************************************)
VARIABLES
    isoForms,   \* which fromisoformat the interpreter of this build has
    store,      \* the Book table, rows in insertion order
    pc,         \* per worker: where its createBook call stands
    args,       \* per worker: the arguments of its call
    pub_date,   \* per worker: the local pub_date of mutate
    result,     \* per worker: how the call ended
    reads,      \* per worker: store queries the call has executed
    writes,     \* per worker: store inserts the call has executed
    added,      \* per worker: the rows the call's inserts added
    seen,       \* per worker: the rows with the call's ISBN when it started
    search,     \* the last searchBooks call
    imp         \* the CSV importer

vars == <<isoForms, store, pc, args, pub_date, result, reads, writes, added,
          seen, search, imp>>

Workers == 1..NumWorkers

(***************************************************************************)
(* Text constants of the inputs.                                           *)
(***************************************************************************)
Isbn10 == <<"1", "2", "3", "4", "5", "6", "7", "8", "9", "0">>
Isbn13 == <<"9", "7", "8", "0", "4", "5", "1", "5", "2", "4", "9", "3", "5">>
IsbnHyphen == <<"9", "7", "8", "-", "0", "4", "5", "1">>
DateGood == <<"1", "9", "6", "5", "-", "0", "8", "-", "0", "1">>
DateBad == <<"2", "0", "2", "1", "-", "1", "3", "-", "4", "0">>
DateCompact == <<"1", "9", "6", "5", "0", "8", "0", "1">>
Dune == <<"D", "u", "n", "e">>
Emma == <<"E", "m", "m", "a">>
Herbert == <<"H", "e", "r", "b", "e", "r", "t">>
Austen == <<"A", "u", "s", "t", "e", "n">>
English == <<"E", "n", "g", "l", "i", "s", "h">>
CoverUrl == <<"h", "t", "t", "p", ":", "/", "/", "c">>

IsbnMsg == "ISBN must be 10 or 13 digits."
DateMsg == "published_date must be in YYYY-MM-DD format."
DupMsg == "Book with this ISBN already exists."

\* cover_image is optional: <<>> is None.
NoCover == <<>>

MkArgs(t, a, d, i, p, l, c) ==
    [title |-> t, author |-> a, published_date |-> d, isbn_number |-> i,
     pages |-> p, language |-> l, cover_image |-> c]

\* The arguments createBook is called with.
MutateInputs ==
    {MkArgs(b[1], b[2], d, i, b[3], English, b[4]) :
        b \in {<<Dune, Herbert, 412, NoCover>>,
               <<Emma, Austen, 474, <<CoverUrl>> >>},
        d \in {DateGood, DateBad},
        i \in {Isbn10, IsbnHyphen}}

(***************************************************************************)
(* Book: the model class, and the table's operations.                      *)
(***************************************************************************)
\* NewBook storing the published_date argument as given, unparsed.
NewBook_RawDate(id, a, d) ==
    [id |-> id, title |-> a.title, author |-> a.author,
     published_date |-> a.published_date, isbn_number |-> a.isbn_number,
     pages |-> a.pages, cover_image |-> a.cover_image,
     language |-> a.language]

\* Book.objects.create's row.
NewBook(id, a, d) ==
    [id |-> id, title |-> a.title, author |-> a.author, published_date |-> d,
     isbn_number |-> a.isbn_number, pages |-> a.pages,
     cover_image |-> a.cover_image, language |-> a.language]

RowsWithIsbn(s, isbn) == SelectSeq(s, LAMBDA b : b.isbn_number = isbn)

\* IsbnExists filtering on the wrong column.
IsbnExists_WrongField(s, isbn) == \E i \in 1..Len(s) : s[i].title = isbn

\* Book.objects.filter(isbn_number=isbn_number).exists()
IsbnExists(s, isbn) == RowsWithIsbn(s, isbn) # <<>>

\* UniqueViolation of a column declared without unique=True.
UniqueViolation_NoConstraint(s, isbn) == FALSE

\* isbn_number is unique=True: the table refuses a second row (IntegrityError).
UniqueViolation(s, isbn) == \E i \in 1..Len(s) : s[i].isbn_number = isbn

(***************************************************************************)
(* CreateBook.mutate.                                                      *)
(***************************************************************************)
NoResult == [kind |-> "none", ok |-> FALSE, book |-> <<>>, errors |-> <<>>]
Returned(ok, book, errors) ==
    [kind |-> "return", ok |-> ok, book |-> book, errors |-> errors]
Raised(exc) == [kind |-> "raise", ok |-> FALSE, book |-> <<>>, errors |-> <<exc>>]

\* ValidationErrors returning at the first failed validation.
ValidationErrors_FirstOnly(forms, isbn, date) ==
    IF ~IsbnMatches(isbn) THEN <<IsbnMsg>>
    ELSE IF FromIsoFormat(forms, date) = NoDate THEN <<DateMsg>>
    ELSE <<>>

\* The errors list after both validations.
ValidationErrors(forms, isbn, date) ==
    (IF IsbnMatches(isbn) THEN <<>> ELSE <<IsbnMsg>>)
    \o (IF FromIsoFormat(forms, date) # NoDate THEN <<>> ELSE <<DateMsg>>)

Free(w) == pc[w] \in {"idle", "returned", "raised"}

\* A call arrives; both validations run and the call returns if either failed.
mutate_validate(w, a) ==
    /\ Free(w)
    /\ LET errors == ValidationErrors(isoForms, a.isbn_number, a.published_date)
       IN  /\ args' = [args EXCEPT ![w] = a]
           /\ pub_date' = [pub_date EXCEPT
                             ![w] = FromIsoFormat(isoForms, a.published_date)]
           /\ seen' = [seen EXCEPT ![w] = RowsWithIsbn(store, a.isbn_number)]
           /\ reads' = [reads EXCEPT ![w] = 0]
           /\ writes' = [writes EXCEPT ![w] = 0]
           /\ added' = [added EXCEPT ![w] = <<>>]
           /\ IF errors # <<>>
              THEN /\ result' = [result EXCEPT ![w] = Returned(FALSE, <<>>, errors)]
                   /\ pc' = [pc EXCEPT ![w] = "returned"]
              ELSE /\ result' = [result EXCEPT ![w] = NoResult]
                   /\ pc' = [pc EXCEPT ![w] = "check"]
    /\ UNCHANGED <<isoForms, store, search, imp>>

\* The uniqueness pre-check: one store query.
mutate_check(w) ==
    /\ pc[w] = "check"
    /\ reads' = [reads EXCEPT ![w] = @ + 1]
    /\ IF IsbnExists(store, args[w].isbn_number)
       THEN /\ result' = [result EXCEPT ![w] = Returned(FALSE, <<>>, <<DupMsg>>)]
            /\ pc' = [pc EXCEPT ![w] = "returned"]
       ELSE /\ pc' = [pc EXCEPT ![w] = "create"]
            /\ UNCHANGED result
    /\ UNCHANGED <<isoForms, store, args, pub_date, writes, added, seen,
                   search, imp>>

\* Book.objects.create: one insert, which the unique constraint may refuse.
mutate_create(w) ==
    /\ pc[w] = "create"
    /\ writes' = [writes EXCEPT ![w] = @ + 1]
    /\ IF UniqueViolation(store, args[w].isbn_number)
       THEN /\ result' = [result EXCEPT ![w] = Raised("IntegrityError")]
            /\ pc' = [pc EXCEPT ![w] = "raised"]
            /\ UNCHANGED <<store, added>>
       ELSE LET book == NewBook(Len(store) + 1, args[w], pub_date[w][1])
            IN  /\ store' = Append(store, book)
                /\ added' = [added EXCEPT ![w] = Append(@, book)]
                /\ result' = [result EXCEPT ![w] = Returned(TRUE, <<book>>, <<>>)]
                /\ pc' = [pc EXCEPT ![w] = "returned"]
    /\ UNCHANGED <<isoForms, args, pub_date, reads, seen, search, imp>>

NoSearch == [done |-> FALSE]
ImpIdle == [pc |-> "off", file |-> <<>>, total |-> 0, failures |-> 0,
            posted |-> <<>>, resps |-> <<>>, exit |-> -1, exc |-> "none"]

InitWorkers ==
    /\ store = <<>>
    /\ pc = [w \in Workers |-> "idle"]
    /\ args = [w \in Workers |-> <<>>]
    /\ pub_date = [w \in Workers |-> NoDate]
    /\ result = [w \in Workers |-> NoResult]
    /\ reads = [w \in Workers |-> 0]
    /\ writes = [w \in Workers |-> 0]
    /\ added = [w \in Workers |-> <<>>]
    /\ seen = [w \in Workers |-> <<>>]

Init ==
    /\ isoForms \in IsoFormsOfBuild
    /\ InitWorkers
    /\ search = NoSearch
    /\ imp = ImpIdle

Next ==
    \/ \E w \in Workers, a \in MutateInputs : mutate_validate(w, a)
    \/ \E w \in Workers : mutate_check(w)
    \/ \E w \in Workers : mutate_create(w)

Spec == Init /\ [][Next]_vars

(***************************************************************************)
(* Query.resolve_search_books.                                             *)
(***************************************************************************)
\* A query argument: <<>> is a missing (None) query, <<q>> the string q.
NoQuery == <<>>

\* Sanitize removing nothing.
Sanitize_Nothing(q) == q

\* re.sub(r'[^a-zA-Z0-9\s]', '', query)
Sanitize(q) ==
    SelectSeq(q, LAMBDA c : IsAsciiLetter(c) \/ IsAsciiDigit(c) \/ ReSpace(c))

\* field__icontains=s
IContains(field, s) ==
    LET f == LowerStr(field)
        t == LowerStr(s)
    IN  \E i \in 0..(Len(f) - Len(t)) : SubSeq(f, i + 1, i + Len(t)) = t

\* Matches without the language field.
Matches_NoLanguage(b, s) ==
    \/ IContains(b.title, s)
    \/ IContains(b.author, s)
    \/ IContains(b.isbn_number, s)

\* The Q(...) | Q(...) | Q(...) | Q(...) predicate.
Matches(b, s) ==
    \/ IContains(b.title, s)
    \/ IContains(b.author, s)
    \/ IContains(b.isbn_number, s)
    \/ IContains(b.language, s)

\* .distinct(): equal rows once, the first kept.
RECURSIVE Distinct(_)
Distinct(rows) ==
    IF rows = <<>> THEN <<>>
    ELSE LET front == Distinct(SubSeq(rows, 1, Len(rows) - 1))
             last == rows[Len(rows)]
         IN  IF last \in Range(front) THEN front ELSE Append(front, last)

\* Book.objects.filter(...).distinct(), evaluated.
FilterBooks(s, q) == Distinct(SelectSeq(s, LAMBDA b : Matches(b, q)))

resolve_search_books(query) ==
    /\ LET sanitized_query == IF query = NoQuery THEN <<>> ELSE Sanitize(query[1])
       IN  IF query = NoQuery \/ query[1] = <<>> \/ sanitized_query = <<>>
           THEN search' = [done |-> TRUE, query |-> query, over |-> store,
                           result |-> <<>>, reads |-> 0]
           ELSE search' = [done |-> TRUE, query |-> query, over |-> store,
                           result |-> FilterBooks(store, sanitized_query),
                           reads |-> 1]
    /\ UNCHANGED <<isoForms, store, pc, args, pub_date, result, reads, writes,
                   added, seen, imp>>

OBrienDrop == <<"O", "B", "r", "i", "e", "n", " ", "D", "R", "O", "P">>
Tables == <<"T", "a", "b", "l", "e", "s">>
Irish == <<"I", "r", "i", "s", "h">>

\* The books the searched catalogue is built from, through createBook.
CatalogInputs ==
    {MkArgs(b[1], b[2], DateGood, i, 100, b[3], NoCover) :
        b \in {<<Dune, Herbert, English>>, <<Emma, Austen, English>>,
               <<Tables, OBrienDrop, Irish>>},
        i \in {Isbn10, Isbn13}}
    \cup {MkArgs(Dune, Herbert, DateBad, Isbn10, 100, English, NoCover)}

SearchQueries ==
    {NoQuery,
     << <<>> >>,
     << <<"!", "!", "!">> >>,
     << <<"d", "u", "n", "e">> >>,
     << <<"e", "n", "g", "l", "i", "s", "h">> >>,
     << <<"E", "N">> >>,
     << <<"R", "I">> >>,
     << <<"1", "2", "3">> >>,
     << <<" ">> >>,
     << <<"n", "-", "e">> >>,
     << <<"n", NoBreakSpace>> >>,
     << <<"O", "'", "B", "r", "i", "e", "n", ";", " ", "D", "R", "O", "P">> >>}

NextSearch ==
    \/ \E a \in CatalogInputs : mutate_validate(1, a)
    \/ mutate_check(1)
    \/ mutate_create(1)
    \/ \E q \in SearchQueries : resolve_search_books(q)

\* One request at a time: creations and searches of a single worker.
SpecSearch == Init /\ [][NextSearch]_vars

(***************************************************************************)
(* The validation alone, over wide sets of isbn_number and published_date  *)
(* strings.                                                                *)
(***************************************************************************)
\* "1234567890123..." of n characters.
DigitsOf(n) == [i \in 1..n |-> AsciiDigits[(i % 10) + 1]]
OddChars == {"-", " ", "a", "X", "\n", ArabicThree}

\* Digit strings of every length, and each with one character replaced.
IsbnInputs ==
    {DigitsOf(n) : n \in 0..MaxIsbnLen}
    \cup {[DigitsOf(n) EXCEPT ![p] = c] :
            n \in 1..MaxIsbnLen, p \in 1..MaxIsbnLen, c \in OddChars}

YearTexts == {<<"1", "9", "6", "5">>, <<"2", "0", "2", "0">>,
              <<"2", "0", "2", "1">>, <<"0", "0", "0", "0">>, <<"6", "5">>}
MonthTexts == {<<"0", "1">>, <<"0", "2">>, <<"1", "3">>, <<"0", "0">>, <<"8">>}
DayTexts == {<<"0", "1">>, <<"2", "9">>, <<"3", "0">>, <<"3", "1">>,
             <<"4", "0">>, <<"0", "0">>, <<"1">>}
SepTexts == {<<"-">>, <<"/">>, <<>>}
WeekTexts == {<<"0", "1">>, <<"5", "3">>, <<"0", "0">>}
WeekDayTexts == {<<>>, <<"1">>, <<"7">>, <<"8">>}

\* Year, month and day texts under every pair of separators; ISO week dates;
\* and a few strings of other shapes.
DateInputs ==
    {y \o s1 \o m \o s2 \o d :
        y \in YearTexts, s1 \in SepTexts, m \in MonthTexts, s2 \in SepTexts,
        d \in DayTexts}
    \cup {y \o s1 \o <<"W">> \o w \o s2 \o d :
        y \in {<<"2", "0", "2", "0">>, <<"2", "0", "2", "1">>},
        s1 \in {<<"-">>, <<>>}, w \in WeekTexts, s2 \in {<<"-">>, <<>>},
        d \in WeekDayTexts}
    \cup {<<>>,
          DateGood, DateBad, DateCompact,
          <<"0", "1", "/", "0", "1", "/", "2", "0", "2", "1">>,
          DateGood \o <<"\n">>,
          <<" ">> \o DateGood,
          <<ArabicThree>> \o SubSeq(DateGood, 2, 10)}

ValidationInputs ==
    {MkArgs(Dune, Herbert, d, i, 412, English, NoCover) :
        d \in {DateGood, DateBad}, i \in IsbnInputs}
    \cup {MkArgs(Dune, Herbert, d, i, 412, English, NoCover) :
        d \in DateInputs, i \in {Isbn10, IsbnHyphen}}

\* The first call a fresh server receives.
NextValidate ==
    \E a \in ValidationInputs : pc[1] = "idle" /\ mutate_validate(1, a)

SpecValidate == Init /\ [][NextValidate]_vars

(***************************************************************************)
(* add_books.py: post_book and import_csv.                                 *)
(***************************************************************************)
\* int(text), with ValueError as <<>>: ASCII digits after an optional sign.
PyInt(text) ==
    LET signed == text # <<>> /\ text[1] \in {"+", "-"}
        first == IF signed THEN 2 ELSE 1
    IN  IF Len(text) >= first /\ AllAsciiDigits(text, first, Len(text))
        THEN <<(IF signed /\ text[1] = "-" THEN -1 ELSE 1)
                * Num(text, first, Len(text))>>
        ELSE <<>>

\* int(row.get('pages') or 0): an empty or missing cell is 0.
PagesOf(cell) == IF cell = <<>> THEN <<0>> ELSE PyInt(cell)

\* What post_book returns: a dict of its own for a connection failure or a
\* body that is not JSON, and otherwise the server's JSON.
\*   ok_true      {"data": {"createBook": {"ok": true, ...}}}
\*   ok_false     {"data": {"createBook": {"ok": false, "errors": [...]}}}
\*   errors_only  {"errors": [...]}                    (request refused)
\*   data_null    {"errors": [...], "data": null}
\*   field_null   {"errors": [...], "data": {"createBook": null}}
\*                                                      (mutate raised)
\*   not_dict     a JSON value that is no object
Responses ==
    {"network_error", "non_json_response", "ok_true", "ok_false",
     "errors_only", "data_null", "field_null", "not_dict"}

\* isinstance(resp, dict) and 'data' in resp and resp['data']
\*   and resp['data'].get('createBook', {}).get('ok')
\* "raise" where None.get raises AttributeError.
RowOk(resp) ==
    IF resp \in {"network_error", "non_json_response", "errors_only",
                 "data_null", "not_dict"}
    THEN "false"
    ELSE IF resp = "field_null" THEN "raise"
    ELSE IF resp = "ok_true" THEN "true" ELSE "false"

CsvRows ==
    {[isbn_number |-> Isbn10, pages |-> p] :
        p \in {<<>>, <<"1", "2">>, <<"a", "b", "c">>}}

RECURSIVE SeqsUpTo(_, _)
SeqsUpTo(S, n) ==
    IF n = 0 THEN {<<>>}
    ELSE LET shorter == SeqsUpTo(S, n - 1)
         IN  shorter \cup {Append(f, x) : f \in {g \in shorter : Len(g) = n - 1},
                                          x \in S}
CsvFiles == SeqsUpTo(CsvRows, MaxRows)

\* The variables import_csv sends for a row.
RowVars(row, pages) == [isbnNumber |-> row.isbn_number, pages |-> pages]

\* One round of the for loop: convert, post, count.
import_row(resp) ==
    /\ imp.pc = "loop"
    /\ imp.total < Len(imp.file)
    /\ LET row == imp.file[imp.total + 1]
           pages == PagesOf(row.pages)
       IN  IF pages = <<>>
           THEN imp' = [imp EXCEPT !.pc = "crashed", !.total = @ + 1,
                                   !.exit = 1, !.exc = "ValueError"]
           ELSE IF RowOk(resp) = "raise"
           THEN imp' = [imp EXCEPT !.pc = "crashed", !.total = @ + 1,
                                   !.posted = Append(@, RowVars(row, pages[1])),
                                   !.resps = Append(@, resp),
                                   !.exit = 1, !.exc = "AttributeError"]
           ELSE imp' = [imp EXCEPT !.total = @ + 1,
                                   !.posted = Append(@, RowVars(row, pages[1])),
                                   !.resps = Append(@, resp),
                                   !.failures = IF RowOk(resp) = "true"
                                                THEN @ ELSE @ + 1]
    /\ UNCHANGED <<isoForms, store, pc, args, pub_date, result, reads, writes,
                   added, seen, search>>

\* The file is exhausted: import_csv returns the exit code.
import_return ==
    /\ imp.pc = "loop"
    /\ imp.total = Len(imp.file)
    /\ imp' = [imp EXCEPT !.pc = "done",
                          !.exit = IF imp.failures = 0 THEN 0 ELSE 2]
    /\ UNCHANGED <<isoForms, store, pc, args, pub_date, result, reads, writes,
                   added, seen, search>>

InitImport ==
    /\ isoForms \in IsoFormsOfBuild
    /\ InitWorkers
    /\ search = NoSearch
    /\ \E f \in CsvFiles :
          imp = [pc |-> "loop", file |-> f, total |-> 0, failures |-> 0,
                 posted |-> <<>>, resps |-> <<>>, exit |-> -1, exc |-> "none"]

NextImport ==
    \/ \E resp \in Responses : import_row(resp)
    \/ import_return

SpecImport == InitImport /\ [][NextImport]_vars

(***************************************************************************)
(* Properties.                                                             *)
(***************************************************************************)
Finished(w) == pc[w] \in {"returned", "raised"}
PassesValidation(a) ==
    /\ IsbnMatches(a.isbn_number)
    /\ FromIsoFormat(isoForms, a.published_date) # NoDate

\* C1: once a Book with ISBN x is in the store, every createBook call that
\* starts afterwards with isbn_number x and valid fields returns ok=false,
\* book=none and exactly the duplicate-ISBN error, adds nothing, and the store
\* still holds the one original record with ISBN x, its fields as they were.
C1_DuplicateRejected ==
    \A w \in Workers :
        (Finished(w) /\ seen[w] # <<>> /\ PassesValidation(args[w]))
        => /\ result[w] = Returned(FALSE, <<>>, <<DupMsg>>)
           /\ added[w] = <<>>
           /\ Len(seen[w]) = 1
           /\ RowsWithIsbn(store, args[w].isbn_number) = seen[w]

\* A finished second creation of a stored ISBN, under another title.
C1_Witness ==
    \E w \in Workers :
        /\ Finished(w) /\ seen[w] # <<>> /\ PassesValidation(args[w])
        /\ seen[w][1].title # args[w].title

\* C2: in every reachable state, whatever the interleaving of pre-checks and
\* writes, no two Book records of the store share an isbn_number.
C2_IsbnUnique ==
    \A i, j \in 1..Len(store) :
        store[i].isbn_number = store[j].isbn_number => i = j

\* Two calls with one ISBN both passed the pre-check and both wrote: one
\* write took effect, the store refused the other.
C2_Witness ==
    \E w, v \in Workers :
        /\ w # v
        /\ args[w] # <<>> /\ args[v] # <<>>
        /\ args[w].isbn_number = args[v].isbn_number
        /\ pc[w] = "returned" /\ result[w].ok /\ writes[w] = 1
        /\ pc[v] = "raised" /\ writes[v] = 1

\* C3: a call whose isbn_number or published_date fails validation returns
\* ok=false, book=none and only validation messages (ISBN message first, then
\* date message, never the duplicate-ISBN message), reads and writes nothing
\* in the store; the same invalid record submitted again gets the same result.
C3_ValidationFailure ==
    \A w \in Workers :
        (Finished(w) /\ ~PassesValidation(args[w]))
        => /\ result[w] =
                Returned(FALSE, <<>>,
                    (IF IsbnMatches(args[w].isbn_number)
                     THEN <<>> ELSE <<IsbnMsg>>)
                    \o (IF FromIsoFormat(isoForms, args[w].published_date) # NoDate
                        THEN <<>> ELSE <<DateMsg>>))
           /\ DupMsg \notin Range(result[w].errors)
           /\ reads[w] = 0 /\ writes[w] = 0 /\ added[w] = <<>>
           /\ \A v \in Workers :
                (Finished(v) /\ args[v] = args[w]) => result[v] = result[w]

\* The same record with a bad date, submitted twice, the second time when its
\* ISBN is already stored; another call has reported both messages.
C3_Witness ==
    \E w, v \in Workers :
        /\ w # v /\ Finished(w) /\ Finished(v)
        /\ args[w] = args[v]
        /\ IsbnMatches(args[w].isbn_number)
        /\ ~PassesValidation(args[w])
        /\ seen[v] # <<>>

\* C4: every call executes at most one store write and adds a record exactly
\* when it returns ok=true; then errors=[] and book is the one record added,
\* holding the given fields with published_date parsed; a call returning
\* ok=false has book=none, a non-empty errors list and wrote nothing.
C4_OneWriteIffOk ==
    \A w \in Workers :
        /\ writes[w] <= 1
        /\ Len(added[w]) <= 1
        /\ Finished(w) =>
            /\ (Len(added[w]) = 1) <=> (result[w].kind = "return" /\ result[w].ok)
            /\ (result[w].kind = "return" /\ result[w].ok) =>
                /\ result[w].errors = <<>>
                /\ writes[w] = 1
                /\ result[w].book = added[w]
                /\ added[w][1] \in Range(store)
                /\ LET b == added[w][1]
                       a == args[w]
                   IN  /\ b.title = a.title /\ b.author = a.author
                       /\ b.isbn_number = a.isbn_number /\ b.pages = a.pages
                       /\ b.language = a.language
                       /\ b.cover_image = a.cover_image
                       /\ <<b.published_date>> =
                            FromIsoFormat(isoForms, a.published_date)
            /\ (result[w].kind = "return" /\ ~result[w].ok) =>
                /\ result[w].book = <<>>
                /\ result[w].errors # <<>>
                /\ writes[w] = 0
                /\ added[w] = <<>>

\* One call has returned ok=true with a cover image, another ok=false.
C4_Witness ==
    \E w, v \in Workers :
        /\ pc[w] = "returned" /\ result[w].ok
        /\ args[w].cover_image # NoCover
        /\ pc[v] = "returned" /\ ~result[v].ok

\* A decimal digit, ASCII or not.
ClaimDigit(c) == c \in Range(AsciiDigits) \cup {ArabicThree}

\* C5: validation reports the ISBN error exactly for the isbn_number strings
\* whose length is not 10 or 13 or that hold a character that is no digit
\* (hyphen, space, letter, newline).
C5_IsbnRule ==
    pc[1] # "idle" =>
        LET isbn == args[1].isbn_number
            bad == \/ Len(isbn) \notin {10, 13}
                   \/ \E i \in 1..Len(isbn) : ~ClaimDigit(isbn[i])
        IN  (IsbnMsg \in Range(result[1].errors)) <=> bad

\* A valid calendar date written YYYY-MM-DD.
C6_StrictDate(s) ==
    /\ Len(s) = 10
    /\ \A i \in {1, 2, 3, 4, 6, 7, 9, 10} : IsAsciiDigit(s[i])
    /\ s[5] = "-" /\ s[8] = "-"
    /\ ValidYmd(Num(s, 1, 4), Num(s, 6, 7), Num(s, 9, 10))

\* C6: validation reports the date error exactly for the published_date
\* strings that are not a valid calendar date in strict YYYY-MM-DD form.
C6_DateRule ==
    pc[1] # "idle" =>
        ((DateMsg \in Range(result[1].errors))
            <=> ~C6_StrictDate(args[1].published_date))

\* C7: a call that creates no Book (validation failure or duplicate-ISBN
\* conflict) ends by returning ok=false with its messages in errors, never by
\* raising out of mutate, under every interleaving.
C7_ErrorsAsData ==
    \A w \in Workers :
        (Finished(w) /\ added[w] = <<>>)
        => /\ result[w].kind = "return"
           /\ ~result[w].ok
           /\ result[w].errors # <<>>

\* The sanitized form: ASCII letters, digits and whitespace kept, in order.
RECURSIVE ClaimSanitized(_)
ClaimSanitized(q) ==
    IF q = <<>> THEN <<>>
    ELSE LET c == q[1]
         IN  (IF IsAsciiLetter(c) \/ IsAsciiDigit(c) \/ ReSpace(c)
              THEN <<c>> ELSE <<>>) \o ClaimSanitized(Tail(q))

\* s is a substring of f, letter case ignored.
ClaimSubstring(s, f) ==
    \E pre, post \in 0..Len(f) :
        /\ pre + Len(s) + post = Len(f)
        /\ \A k \in 1..Len(s) : Lower(f[pre + k]) = Lower(s[k])

C9_EmptySearch ==
    [][search' # search =>
        /\ store' = store
        /\ (\/ search'.query = NoQuery
            \/ search'.query[1] = <<>>
            \/ ClaimSanitized(search'.query[1]) = <<>>)
           => (search'.result = <<>> /\ search'.reads = 0)]_vars

\* A query of punctuation only has been answered over a store with Books.
C9_Witness ==
    /\ search.done
    /\ search.query = << <<"!", "!", "!">> >>
    /\ search.over # <<>>
    /\ search.result = <<>>

\* C10: when the import ends, the creation operation was invoked once for
\* every data row in file order (a missing pages value sent as 0), the
\* failure count is the number of rows not answered ok=true, and the exit
\* code is 0 if that count is 0 and 2 otherwise.
C10_EveryRowPosted ==
    imp.pc \in {"done", "crashed"} =>
        /\ Len(imp.posted) = Len(imp.file)
        /\ \A i \in 1..Len(imp.posted) :
              /\ imp.posted[i].isbnNumber = imp.file[i].isbn_number
              /\ imp.file[i].pages = <<>> => imp.posted[i].pages = 0
        /\ imp.failures =
              Cardinality({i \in 1..Len(imp.resps) : imp.resps[i] # "ok_true"})
        /\ imp.exit = (IF imp.failures = 0 THEN 0 ELSE 2)

=============================================================================
